---- MODULE Spec2Model ----
(***************************************************************************)
(* Charity-code (credential) lifecycle of the backend: issuance,           *)
(* redemption (verify-charity-code), deactivation, and the capability      *)
(* grant stored on the user.  Every `await` of a route handler is a step   *)
(* boundary: the database is the only shared state, and a handler works on *)
(* the document snapshot it loaded.  A mongoose save() of a loaded         *)
(* document writes only the paths the handler modified, addressed by _id.  *)
(***************************************************************************)
EXTENDS Integers, Sequences, FiniteSets, TLC

(* ---- bounds ---- *)
MaxTime  == 1      \* the clock runs 0..MaxTime
MaxUsers == 3      \* user _ids ever allocated (the seeded admin included)
MaxCodes == 2      \* charity-code documents ever inserted
NumCodeStrings == 2 \* distinct code strings a request can present
NumSlots == 2      \* requests in flight at the same time
MaxCharities == 2  \* charity documents ever inserted
MaxBatch == 2      \* largest valid count a bulk request asks for
NumChars == 3      \* characters of the alphabet strings are written in
MaxLen == 3        \* longest string handed to the encryption utility
MaxPrograms == 2   \* programs of one charity

Slots       == 1..NumSlots
CodeStrings == 1..NumCodeStrings
AdminId     == 1                \* the admin account seeded in the database
Clients     == 2..MaxUsers      \* _ids of accounts created by /register
MaxCount    == 50               \* Joi: count .max(50) of the bulk schema

VARIABLES
  now,        \* the wall clock (new Date())
  users,      \* User collection: _id -> document
  nextUserId, \* next fresh User _id
  codes,      \* CharityCode collection: sequence, _id = index
  reqs,       \* requests: slot -> handler position, locals, response
  charities,  \* Charity collection: sequence, _id = index
  io          \* the last call of the encryption utility made directly

vars == <<now, users, nextUserId, codes, reqs, charities, io>>

(* ---- utils/encryption.js ---- *)
\* A string is a sequence of characters 0..NumChars-1; null and undefined
\* are the one-element sequence Null, which no string equals.
Chars == 0..(NumChars - 1)

Texts == UNION {[1..n -> Chars] : n \in 0..MaxLen}

Null == << -1 >>

ENCRYPTION_KEY == 1

\* `!text`
Falsy(text) == text = Null \/ text = << >>

RECURSIVE Sum(_)
Sum(text) == IF text = << >> THEN 0 ELSE Head(text) + Sum(Tail(text))

\* The cipher of the crypto library, keyed by ENCRYPTION_KEY: every
\* character is shifted by the key, and final() adds the padding block,
\* which depends on key and text; the decipher shifts back and throws when
\* the padding block is missing or wrong.
Shift(text, k) == [i \in 1..Len(text) |-> (text[i] + k) % NumChars]

Padding(text) == (Sum(text) + Len(text) + ENCRYPTION_KEY) % NumChars

CipherFinal(text) == Append(Shift(text, ENCRYPTION_KEY), Padding(text))

\* the result, or Null where the decipher throws
DecipherFinal(encrypted) ==
  IF Len(encrypted) = 0 THEN Null
  ELSE LET text == Shift(SubSeq(encrypted, 1, Len(encrypted) - 1),
                         NumChars - ENCRYPTION_KEY)
       IN IF Padding(text) = encrypted[Len(encrypted)] THEN text ELSE Null

\* Variant: a blob is made for the empty string as well.
simpleEncrypt_NoFalsyCheck(text) ==
  IF text = Null THEN Null ELSE CipherFinal(text)

simpleEncrypt(text) == IF Falsy(text) THEN Null ELSE CipherFinal(text)

\* the catch block turns a throw of the decipher into null
simpleDecrypt(encrypted) ==
  IF Falsy(encrypted) THEN Null ELSE DecipherFinal(encrypted)

\* aes-256-gcm: the ciphertext has the length of the text, the auth tag
\* depends on key and text; iv is drawn at random and returned, the cipher
\* made by createCipher does not use it
NullData == [encrypted |-> Null, iv |-> -1, authTag |-> -1]

encrypt(text, iv) ==
  IF Falsy(text) THEN NullData
  ELSE [encrypted |-> Shift(text, ENCRYPTION_KEY), iv |-> iv,
        authTag |-> Padding(text)]

\* null for no data, for data without ciphertext and where final() throws
\* on the auth tag
decrypt(encryptedData) ==
  IF encryptedData = NullData \/ Falsy(encryptedData.encrypted) THEN Null
  ELSE LET text == Shift(encryptedData.encrypted, NumChars - ENCRYPTION_KEY)
       IN IF Padding(text) = encryptedData.authTag THEN text ELSE Null

NoIo == [op |-> "none", text |-> Null, blob |-> Null, data |-> NullData,
         out |-> Null]

(* ---- documents ---- *)
NoAuthorization == [code |-> 0, authorizedAt |-> 0, canCreateCharity |-> FALSE]

\* personalInfo: firstName stands for the top-level strings the pre-save
\* hook encrypts (firstName, lastName, phone, description), city for the
\* address strings it encrypts (street, city, state, zipCode), country for
\* the address string it does not touch
NoPersonalInfo == [firstName |-> Null, city |-> Null, country |-> Null]

NewUser(accountType) ==
  [accountType |-> accountType, isActive |-> TRUE,
   charityAuthorization |-> NoAuthorization,
   personalInfo |-> NoPersonalInfo]

NullUser == [id |-> 0, accountType |-> "none", isActive |-> FALSE,
             charityAuthorization |-> NoAuthorization,
             personalInfo |-> NoPersonalInfo]

NoUsedBy == [user |-> 0, usedAt |-> 0]

\* no charity loaded
NullCharity == [id |-> 0, owner |-> 0, status |-> "none", name |-> Null,
                programs |-> << >>]

NewCharityCode(code, expiresAt, createdBy) ==
  [code |-> code, expiresAt |-> expiresAt, isUsed |-> FALSE,
   usedBy |-> NoUsedBy, createdBy |-> createdBy, isActive |-> TRUE]

NullCode == [id |-> 0, code |-> 0, expiresAt |-> 0, isUsed |-> FALSE,
             usedBy |-> NoUsedBy, createdBy |-> 0, isActive |-> FALSE]

\* a loaded document: the stored fields plus its _id
UserDoc(id) == [id |-> id, accountType |-> users[id].accountType,
                isActive |-> users[id].isActive,
                charityAuthorization |-> users[id].charityAuthorization,
                personalInfo |-> users[id].personalInfo]

CodeDoc(id) == [id |-> id, code |-> codes[id].code,
                expiresAt |-> codes[id].expiresAt, isUsed |-> codes[id].isUsed,
                usedBy |-> codes[id].usedBy, createdBy |-> codes[id].createdBy,
                isActive |-> codes[id].isActive]

CodeIds == 1..Len(codes)

(* ---- queries ---- *)
\* User.findById
FindUserById(id) == IF id \in DOMAIN users THEN UserDoc(id) ELSE NullUser

\* CharityCode.findOne({ code }) / findById
CodeIdsWithCode(code) == {c \in CodeIds : codes[c].code = code}

FindCodeById(id) == IF id \in CodeIds THEN CodeDoc(id) ELSE NullCode

FindCodeByCode(code) ==
  IF CodeIdsWithCode(code) = {} THEN NullCode
  ELSE CodeDoc(CHOOSE c \in CodeIdsWithCode(code) : TRUE)

\* the lookup without its isActive filter
FindActiveCode_NoFilter(code) == FindCodeByCode(code)

\* CharityCode.findOne({ code, isActive: true })
FindActiveCode(code) ==
  LET hit == {c \in CodeIdsWithCode(code) : codes[c].isActive}
  IN IF hit = {} THEN NullCode ELSE CodeDoc(CHOOSE c \in hit : TRUE)

(* ---- CharityCode methods ---- *)
isValidForUse(doc, t) == doc.isActive /\ t < doc.expiresAt /\ ~doc.isUsed

\* the reason the handler reports for a loaded code that is not valid
InvalidReason(doc, t) ==
  IF t >= doc.expiresAt THEN "Expired"
  ELSE IF doc.isUsed THEN "AlreadyUsed"
  ELSE IF ~doc.isActive THEN "Inactive"
  ELSE "NotValid"

\* the grant check testing the account type instead of the grant
AlreadyAuthorized_Admin(user) == user.accountType = "admin"

\* req.user.charityAuthorization && req.user.charityAuthorization.canCreateCharity
AlreadyAuthorized(user) == user.charityAuthorization.canCreateCharity

(* ---- requests ---- *)
\* the five countDocuments queries of GET /charity-codes/stats
Queries == {"total", "active", "expired", "used", "unused"}

\* a body of PUT /users/:id that sets neither key of updateUserSchema
NoValue == [accountType |-> "unset", isActive |-> "unset"]

\* no query has answered yet (-1), no `now` taken
NoStats == [now |-> 0, count |-> [q \in Queries |-> -1]]

IdleReq ==
  [op |-> "idle", pc |-> "idle", uid |-> 0, code |-> 0, exp |-> 0,
   user |-> NullUser, doc |-> NullCode, res |-> "none",
   hadGrant |-> FALSE, wroteCode |-> FALSE, wroteLate |-> FALSE,
   wroteUser |-> FALSE, stats |-> NoStats, generated |-> FALSE,
   batch |-> << >>, saves |-> << >>,
   target |-> NullUser, value |-> NoValue, overGrant |-> FALSE,
   cand |-> 0, info |-> NoPersonalInfo, charity |-> NullCharity]

\* the response is sent: the handler's locals are dropped, the slot keeps the
\* request, its response and the record of what it did
Done(r, res) ==
  [reqs EXCEPT ![r].pc = "done", ![r].res = res,
               ![r].exp = 0,
               ![r].user = NullUser, ![r].doc = NullCode,
               ![r].target = NullUser, ![r].value = NoValue,
               ![r].info = NoPersonalInfo, ![r].charity = NullCharity]

\* whether the stored user id holds a grant (recorded when a request is
\* authenticated)
HoldsGrant(id) == id \in DOMAIN users /\ users[id].charityAuthorization.canCreateCharity

EverRegistered == 1..(nextUserId - 1)

Init ==
  /\ now = 0
  /\ users = (AdminId :> NewUser("admin"))
  /\ nextUserId = AdminId + 1
  /\ codes = << >>
  /\ reqs = [r \in Slots |-> IdleReq]
  /\ charities = << >>
  /\ io = NoIo

(* ---- environment ---- *)
Tick ==
  /\ now < MaxTime
  /\ now' = now + 1
  /\ UNCHANGED <<users, nextUserId, codes, reqs, charities, io>>

\* POST /register with an unused email
Register(accountType) ==
  /\ nextUserId <= MaxUsers
  /\ users' = users @@ (nextUserId :> NewUser(accountType))
  /\ nextUserId' = nextUserId + 1
  /\ UNCHANGED <<now, codes, reqs, charities, io>>

\* Variant: the auth middleware not looking at isActive.
Start_NoActiveCheck(r, op, uid, code, exp) ==
  /\ reqs[r].pc \in {"idle", "done"}
  /\ \A q \in 1..(r - 1) : reqs[q].pc \notin {"idle", "done"}
  /\ uid \in EverRegistered
  /\ LET user == FindUserById(uid)
         req == [IdleReq EXCEPT !.op = op, !.uid = uid, !.code = code]
     IN IF user.id = 0
        THEN reqs' = [reqs EXCEPT ![r] =
                        [req EXCEPT !.pc = "done", !.res = "Unauthenticated"]]
        ELSE reqs' = [reqs EXCEPT ![r] =
                        [req EXCEPT !.pc = "authed", !.user = user, !.exp = exp,
                                    !.hadGrant = HoldsGrant(uid)]]
  /\ UNCHANGED <<now, users, nextUserId, codes, charities, io>>

\* a request arrives (in the first free slot) with the token of user uid and passes the auth
\* middleware: User.findById(decoded.userId), 401 unless found and active
Start(r, op, uid, code, exp) ==
  /\ reqs[r].pc \in {"idle", "done"}
  /\ \A q \in 1..(r - 1) : reqs[q].pc \notin {"idle", "done"}
  /\ uid \in EverRegistered
  /\ LET user == FindUserById(uid)
         req == [IdleReq EXCEPT !.op = op, !.uid = uid, !.code = code]
     IN IF user.id = 0 \/ ~user.isActive
        THEN reqs' = [reqs EXCEPT ![r] =
                        [req EXCEPT !.pc = "done", !.res = "Unauthenticated"]]
        ELSE reqs' = [reqs EXCEPT ![r] =
                        [req EXCEPT !.pc = "authed", !.user = user, !.exp = exp,
                                    !.hadGrant = HoldsGrant(uid)]]
  /\ UNCHANGED <<now, users, nextUserId, codes, charities, io>>

(* ---- POST /verify-charity-code (Redeem) ---- *)
StartRedeem(r, uid, code) == Start(r, "redeem", uid, code, 0)

\* the grant check on req.user, then CharityCode.findOne({ code, isActive: true })
RedeemFind(r) ==
  /\ reqs[r].op = "redeem" /\ reqs[r].pc = "authed"
  /\ IF AlreadyAuthorized(reqs[r].user)
     THEN reqs' = Done(r, "AlreadyGranted")
     ELSE LET charityCode == FindActiveCode(reqs[r].code)
          IN IF charityCode.id = 0
             THEN reqs' = Done(r, "NotFound")
             ELSE reqs' = [reqs EXCEPT ![r].doc = charityCode, ![r].pc = "check"]
  /\ UNCHANGED <<now, users, nextUserId, codes, charities, io>>

\* isValidForUse on the loaded code; when valid, useCode marks the loaded
\* document and hands it to save()
RedeemCheck(r) ==
  /\ reqs[r].op = "redeem" /\ reqs[r].pc = "check"
  /\ IF ~isValidForUse(reqs[r].doc, now)
     THEN reqs' = Done(r, InvalidReason(reqs[r].doc, now))
     ELSE reqs' = [reqs EXCEPT
            ![r].doc.usedBy = [user |-> reqs[r].user.id, usedAt |-> now],
            ![r].doc.isUsed = TRUE,
            ![r].pc = "saveCode"]
  /\ UNCHANGED <<now, users, nextUserId, codes, charities, io>>

\* this.save() of useCode reaches the database: $set usedBy, isUsed by _id
RedeemSaveCode(r) ==
  /\ reqs[r].op = "redeem" /\ reqs[r].pc = "saveCode"
  /\ codes' = [codes EXCEPT ![reqs[r].doc.id].usedBy = reqs[r].doc.usedBy,
                            ![reqs[r].doc.id].isUsed = reqs[r].doc.isUsed]
  /\ reqs' = [reqs EXCEPT ![r].wroteCode = TRUE,
                          ![r].wroteLate = (now >= reqs[r].doc.expiresAt),
                          ![r].pc = "findUser"]
  /\ UNCHANGED <<now, users, nextUserId, charities, io>>

\* User.findById(req.user._id); a null user makes the assignment throw (500)
RedeemFindUser(r) ==
  /\ reqs[r].op = "redeem" /\ reqs[r].pc = "findUser"
  /\ LET user == FindUserById(reqs[r].user.id) IN
       IF user.id = 0
       THEN reqs' = Done(r, "Error")
       ELSE reqs' = [reqs EXCEPT
              ![r].user = [user EXCEPT !.charityAuthorization =
                 [code |-> reqs[r].doc.id, authorizedAt |-> now,
                  canCreateCharity |-> TRUE]],
              ![r].pc = "saveUser"]
  /\ UNCHANGED <<now, users, nextUserId, codes, charities, io>>

\* user.save(): $set charityAuthorization by _id, then the 200 response;
\* save() of a document that is gone rejects (500)
RedeemSaveUser(r) ==
  /\ reqs[r].op = "redeem" /\ reqs[r].pc = "saveUser"
  /\ IF reqs[r].user.id \in DOMAIN users
     THEN /\ users' = [users EXCEPT ![reqs[r].user.id].charityAuthorization =
                          reqs[r].user.charityAuthorization]
          /\ reqs' = [Done(r, "OK") EXCEPT ![r].wroteUser = TRUE]
     ELSE /\ reqs' = Done(r, "Error")
          /\ users' = users
  /\ UNCHANGED <<now, nextUserId, codes, charities, io>>

(* ---- admin: POST /charity-codes (Issue) ---- *)
InFlight(op) == {r \in Slots : reqs[r].op = op /\ reqs[r].pc # "done"}

\* code = 0: no code in the body, the handler generates one
StartIssue(r, uid, code, exp) ==
  /\ Len(codes) + Cardinality(InFlight("issue")) < MaxCodes
  /\ Start(r, "issue", uid, code, exp)

\* requireAdmin, Joi validation, then the existence check or the generation
\* loop (pc "gen" once the loop has been entered; cand is the candidate the
\* last iteration drew and found taken)
IssueFind(r) ==
  /\ reqs[r].op = "issue" /\ reqs[r].pc \in {"authed", "gen"}
  /\ IF reqs[r].pc = "authed" /\ reqs[r].user.accountType # "admin"
     THEN reqs' = Done(r, "Forbidden")
     ELSE IF reqs[r].pc = "authed" /\ reqs[r].exp <= now
     THEN reqs' = Done(r, "InvalidExpiry")
     ELSE IF reqs[r].code # 0
     THEN IF FindCodeByCode(reqs[r].code).id # 0
          THEN reqs' = Done(r, "DuplicateCode")
          ELSE reqs' = [reqs EXCEPT ![r].pc = "save"]
     ELSE \E k \in CodeStrings :        \* generateCode(), one loop iteration
            IF FindCodeByCode(k).id # 0
            THEN reqs' = [reqs EXCEPT ![r].pc = "gen", ![r].cand = k]
            ELSE reqs' = [reqs EXCEPT ![r].code = k, ![r].generated = TRUE,
                                      ![r].cand = 0, ![r].pc = "save"]
  /\ UNCHANGED <<now, users, nextUserId, codes, charities, io>>

\* Variant: a database without the unique index on code.
DuplicateKey_NoIndex(code) == FALSE

\* the unique index on code rejects the insert (E11000)
DuplicateKey(code) == CodeIdsWithCode(code) # {}

\* charityCode.save(): insert, rejected by the unique index on code
IssueSave(r) ==
  /\ reqs[r].op = "issue" /\ reqs[r].pc = "save"
  /\ IF DuplicateKey(reqs[r].code)
     THEN /\ reqs' = Done(r, "Error")
          /\ codes' = codes
     ELSE /\ codes' = Append(codes,
                 NewCharityCode(reqs[r].code, reqs[r].exp, reqs[r].user.id))
          /\ reqs' = Done(r, "Created")
  /\ UNCHANGED <<now, users, nextUserId, charities, io>>

(* ---- admin: PUT /charity-codes/:id/deactivate ---- *)
StartDeactivate(r, uid, id) == Start(r, "deactivate", uid, id, 0)

\* requireAdmin, CharityCode.findById, the isUsed check
DeactivateFind(r) ==
  /\ reqs[r].op = "deactivate" /\ reqs[r].pc = "authed"
  /\ IF reqs[r].user.accountType # "admin"
     THEN reqs' = Done(r, "Forbidden")
     ELSE LET code == FindCodeById(reqs[r].code) IN
       IF code.id = 0 THEN reqs' = Done(r, "NotFound")
       ELSE IF code.isUsed
       THEN reqs' = Done(r, "AlreadyUsed")
       ELSE reqs' = [reqs EXCEPT ![r].doc = [code EXCEPT !.isActive = FALSE],
                                 ![r].pc = "save"]
  /\ UNCHANGED <<now, users, nextUserId, codes, charities, io>>

\* Variant: the save writing the whole loaded document back.
DeactivateSave_WholeDoc(r) ==
  /\ reqs[r].op = "deactivate" /\ reqs[r].pc = "save"
  /\ codes' = [codes EXCEPT ![reqs[r].doc.id] =
                 [code |-> reqs[r].doc.code, expiresAt |-> reqs[r].doc.expiresAt,
                  isUsed |-> reqs[r].doc.isUsed, usedBy |-> reqs[r].doc.usedBy,
                  isActive |-> reqs[r].doc.isActive,
                  createdBy |-> reqs[r].doc.createdBy]]
  /\ reqs' = [Done(r, "Deactivated") EXCEPT ![r].wroteCode = TRUE]
  /\ UNCHANGED <<now, users, nextUserId, charities, io>>

\* code.save(): $set isActive by _id
DeactivateSave(r) ==
  /\ reqs[r].op = "deactivate" /\ reqs[r].pc = "save"
  /\ codes' = [codes EXCEPT ![reqs[r].doc.id].isActive = reqs[r].doc.isActive]
  /\ reqs' = [Done(r, "Deactivated") EXCEPT ![r].wroteCode = TRUE]
  /\ UNCHANGED <<now, users, nextUserId, charities, io>>

(* ---- DELETE /account ---- *)
StartDeleteAccount(r, uid) == Start(r, "deleteAccount", uid, 0, 0)

\* User.findByIdAndDelete(req.user._id)
DeleteAccount(r) ==
  /\ reqs[r].op = "deleteAccount" /\ reqs[r].pc = "authed"
  /\ users' = [u \in DOMAIN users \ {reqs[r].user.id} |-> users[u]]
  /\ reqs' = Done(r, "Deleted")
  /\ UNCHANGED <<now, nextUserId, codes, charities, io>>

(* ---- specification ---- *)
\* Requests of this specification: the admin issues and deactivates codes,
\* registered accounts redeem codes and delete themselves.
Next ==
  \/ Tick
  \/ Register("individual")
  \/ \E r \in Slots :
       \/ \E u \in Clients, k \in CodeStrings : StartRedeem(r, u, k)
       \/ RedeemFind(r)
       \/ RedeemCheck(r)
       \/ RedeemSaveCode(r)
       \/ RedeemFindUser(r)
       \/ RedeemSaveUser(r)
       \/ \E k \in 0..NumCodeStrings, e \in 1..MaxTime :
            StartIssue(r, AdminId, k, e)
       \/ IssueFind(r)
       \/ IssueSave(r)
       \/ \E c \in 1..MaxCodes : StartDeactivate(r, AdminId, c)
       \/ DeactivateFind(r)
       \/ DeactivateSave(r)
       \/ \E u \in Clients : StartDeleteAccount(r, u)
       \/ DeleteAccount(r)

Spec == Init /\ [][Next]_vars

(* ======================= properties ======================= *)
RedeemDone(r) == reqs[r].op = "redeem" /\ reqs[r].pc = "done"

\* the credential stored under the code request r presents (NullCode if none)
Presented(r) == FindCodeByCode(reqs[r].code)

\* request r takes the step that sends its response
Responds(r) == reqs[r].pc \notin {"idle", "done"} /\ reqs'[r].pc = "done"

\* C1: two Redeem attempts on the same code by distinct identities never
\* both receive the success response.
CE_C1 ==
  \A r1, r2 \in Slots :
    (/\ r1 # r2 /\ RedeemDone(r1) /\ RedeemDone(r2)
     /\ reqs[r1].code = reqs[r2].code /\ reqs[r1].uid # reqs[r2].uid
     /\ reqs[r1].res = "OK")
    => reqs[r2].res # "OK"

\* C2: once a credential is redeemed (isUsed), no step changes its
\* redemption record usedBy.user / usedBy.usedAt or resets isUsed.
CE_C2 ==
  [][\A c \in CodeIds :
       codes[c].isUsed => (codes'[c].isUsed /\ codes'[c].usedBy = codes[c].usedBy)]_vars

\* C3: whenever no Redeem is mid-flight, an existing identity i holds a grant
\* referencing credential c exactly when c's redemption names i.
NoRedeemInFlight == \A r \in Slots : reqs[r].op = "redeem" => reqs[r].pc = "done"

CE_C3 ==
  NoRedeemInFlight =>
    \A i \in DOMAIN users, c \in CodeIds :
      (users[i].charityAuthorization.canCreateCharity
         /\ users[i].charityAuthorization.code = c)
      <=> (codes[c].isUsed /\ codes[c].usedBy.user = i)

\* C4: at most one credential has its redemption naming a given identity.
RedeemedBy(u) == {c \in CodeIds : codes[c].isUsed /\ codes[c].usedBy.user = u}

CE_C4 == \A u \in 1..MaxUsers : Cardinality(RedeemedBy(u)) <= 1

\* C5: no Redeem whose redemption write reached the store at a time
\* now >= expiresAt receives the success response.
CE_C5 == \A r \in Slots : (RedeemDone(r) /\ reqs[r].res = "OK") => ~reqs[r].wroteLate

\* C6: a Redeem by an identity that held a grant when the request was
\* authenticated never gets past the grant check: it writes no credential and
\* no user, and its response is AlreadyGranted.
Thm_C6 ==
  \A r \in Slots :
    (reqs[r].op = "redeem" /\ reqs[r].hadGrant) =>
      /\ reqs[r].pc \in {"authed", "done"}
      /\ ~reqs[r].wroteCode /\ ~reqs[r].wroteUser
      /\ reqs[r].pc = "done" => reqs[r].res = "AlreadyGranted"

\* an identity that redeemed one code was answered AlreadyGranted for a
\* different code, which is still valid for use
Witness_C6 ==
  \E r \in Slots :
    /\ RedeemDone(r) /\ reqs[r].res = "AlreadyGranted" /\ reqs[r].hadGrant
    /\ reqs[r].uid \in DOMAIN users
    /\ LET first == users[reqs[r].uid].charityAuthorization.code IN
         /\ first \in CodeIds
         /\ codes[first].isUsed /\ codes[first].usedBy.user = reqs[r].uid
         /\ Presented(r).id # 0 /\ Presented(r).id # first
         /\ isValidForUse(Presented(r), now)

\* C7: a Redeem (identity without grant) that meets a stored credential that
\* is not valid for use answers with the reason of the precedence
\* Expired, AlreadyUsed, Inactive.
CE_C7 ==
  [][\A r \in Slots :
       (/\ reqs[r].op = "redeem" /\ Responds(r) /\ ~reqs[r].hadGrant
        /\ reqs[r].pc \in {"authed", "check"}
        /\ Presented(r).id # 0 /\ ~isValidForUse(Presented(r), now))
       => reqs'[r].res = InvalidReason(Presented(r), now)]_vars

\* C8: a Redeem (identity without grant) of a deactivated, unused, unexpired
\* credential answers with the Inactive reason.
CE_C8 ==
  [][\A r \in Slots :
       (/\ reqs[r].op = "redeem" /\ reqs[r].pc = "authed" /\ Responds(r)
        /\ ~reqs[r].hadGrant
        /\ Presented(r).id # 0 /\ ~Presented(r).isActive
        /\ ~Presented(r).isUsed /\ now < Presented(r).expiresAt)
       => reqs'[r].res = "Inactive"]_vars

\* C9 (as stated): a Redeem of a code with no credential, or with an inactive
\* one, answers NotFound and changes no credential and no user.
MissingOrInactive(r) == Presented(r).id = 0 \/ ~Presented(r).isActive

CE_C9 ==
  [][\A r \in Slots :
       (/\ reqs[r].op = "redeem" /\ reqs[r].pc = "authed" /\ reqs'[r] # reqs[r]
        /\ MissingOrInactive(r))
       => (/\ reqs'[r].pc = "done" /\ reqs'[r].res = "NotFound"
           /\ codes' = codes /\ users' = users)]_vars

\* C9 (amended): the same for a Redeem by an identity that holds no grant.
Thm_C9 ==
  [][\A r \in Slots :
       (/\ reqs[r].op = "redeem" /\ reqs[r].pc = "authed" /\ reqs'[r] # reqs[r]
        /\ ~reqs[r].hadGrant /\ MissingOrInactive(r))
       => (/\ reqs'[r].pc = "done" /\ reqs'[r].res = "NotFound"
           /\ codes' = codes /\ users' = users)]_vars

\* an identity without grant was answered NotFound for a deactivated code, and
\* another for a code nobody issued
Witness_C9 ==
  \E r1, r2 \in Slots :
    /\ RedeemDone(r1) /\ reqs[r1].res = "NotFound" /\ ~reqs[r1].hadGrant
    /\ Presented(r1).id # 0 /\ ~Presented(r1).isActive /\ ~Presented(r1).isUsed
    /\ RedeemDone(r2) /\ reqs[r2].res = "NotFound" /\ ~reqs[r2].hadGrant
    /\ Presented(r2).id = 0

\* C10: no credential is both redeemed and inactive.
CE_C10 == \A c \in CodeIds : ~(codes[c].isUsed /\ ~codes[c].isActive)

\* The step of slot r of an admin's deactivate request.
DeactivateStep(r) ==
  /\ reqs[r].op = "deactivate" /\ reqs[r].pc \in {"authed", "save"}
  /\ reqs[r].user.accountType = "admin"
  /\ reqs'[r] # reqs[r]

\* C11: an admin's deactivate request that finds no credential under the id
\* answers NotFound, one that finds a redeemed credential answers AlreadyUsed,
\* and neither writes anything; one that finds an unredeemed credential goes
\* on to its save, which sets isActive to false on that credential and
\* changes no other field, no other credential and no user.
Thm_C11 ==
  [][\A r \in Slots : DeactivateStep(r) =>
       LET target == FindCodeById(reqs[r].code) IN
       /\ users' = users
       /\ (reqs[r].pc = "authed" /\ target.id = 0) =>
            (reqs'[r].pc = "done" /\ reqs'[r].res = "NotFound" /\ codes' = codes)
       /\ (reqs[r].pc = "authed" /\ target.id # 0 /\ target.isUsed) =>
            (reqs'[r].pc = "done" /\ reqs'[r].res = "AlreadyUsed" /\ codes' = codes)
       /\ (reqs[r].pc = "authed" /\ target.id # 0 /\ ~target.isUsed) =>
            (reqs'[r].pc = "save" /\ codes' = codes)
       /\ reqs[r].pc = "save" =>
            /\ reqs'[r].pc = "done" /\ reqs'[r].res = "Deactivated"
            /\ codes' = [codes EXCEPT ![reqs[r].code].isActive = FALSE]]_vars

\* One credential deactivated, and a deactivate refused on another credential
\* that is redeemed and still active.
Witness_C11 ==
  \E r, q \in Slots :
    /\ reqs[r].op = "deactivate" /\ reqs[r].pc = "done"
    /\ reqs[r].res = "AlreadyUsed"
    /\ reqs[r].code \in CodeIds
    /\ codes[reqs[r].code].isUsed /\ codes[reqs[r].code].isActive
    /\ reqs[q].op = "deactivate" /\ reqs[q].pc = "done"
    /\ reqs[q].res = "Deactivated"
    /\ ~codes[reqs[q].code].isActive

(* ---- admin: GET /charity-codes/stats ---- *)
\* the filter of each countDocuments query, `t` being the handler's `now`
Matches(q, code, t) ==
  CASE q = "total"   -> TRUE
    [] q = "active"  -> code.isActive /\ code.expiresAt > t /\ ~code.isUsed
    [] q = "expired" -> code.expiresAt <= t
    [] q = "used"    -> code.isUsed
    [] q = "unused"  -> ~code.isUsed

CountDocuments(q, t) == Cardinality({c \in CodeIds : Matches(q, codes[c], t)})

StartStats(r, uid) == Start(r, "stats", uid, 0, 0)

\* requireAdmin, `const now = new Date()`, the five queries are sent
StatsBegin(r) ==
  /\ reqs[r].op = "stats" /\ reqs[r].pc = "authed"
  /\ IF reqs[r].user.accountType # "admin"
     THEN reqs' = Done(r, "Forbidden")
     ELSE reqs' = [reqs EXCEPT ![r].stats.now = now, ![r].pc = "count"]
  /\ UNCHANGED <<now, users, nextUserId, codes, charities, io>>

\* one of the queries of Promise.all is answered by the database; the
\* response is sent when the last one has answered
StatsCount(r, q) ==
  /\ reqs[r].op = "stats" /\ reqs[r].pc = "count"
  /\ reqs[r].stats.count[q] = -1
  /\ LET n == CountDocuments(q, reqs[r].stats.now)
         answered == [reqs EXCEPT ![r].stats.count[q] = n]
     IN IF \A p \in Queries \ {q} : reqs[r].stats.count[p] # -1
        THEN reqs' = [Done(r, "OK") EXCEPT ![r].stats = NoStats]
        ELSE reqs' = answered
  /\ UNCHANGED <<now, users, nextUserId, codes, charities, io>>

\* Requests of this specification: the admin issues codes and asks for the
\* statistics, registered accounts redeem codes.
NextStats ==
  \/ Register("individual")
  \/ \E r \in Slots :
       \/ \E u \in Clients, k \in CodeStrings : StartRedeem(r, u, k)
       \/ RedeemFind(r)
       \/ RedeemCheck(r)
       \/ RedeemSaveCode(r)
       \/ RedeemFindUser(r)
       \/ RedeemSaveUser(r)
       \/ \E k \in 0..NumCodeStrings, e \in 1..MaxTime :
            StartIssue(r, AdminId, k, e)
       \/ IssueFind(r)
       \/ IssueSave(r)
       \/ StartStats(r, AdminId)
       \/ StatsBegin(r)
       \/ \E q \in Queries : StatsCount(r, q)

SpecStats == Init /\ [][NextStats]_vars

\* The counts of the response that slot r sends in this step.
StatsResult(r) ==
  [q \in Queries |->
     IF reqs[r].stats.count[q] # -1 THEN reqs[r].stats.count[q]
     ELSE CountDocuments(q, reqs[r].stats.now)]

\* C12: the five counts of every statistics response satisfy
\* used + unused = total and active <= unused.
CE_C12 ==
  [][\A r \in Slots :
       (reqs[r].op = "stats" /\ reqs[r].pc = "count" /\ reqs'[r].pc = "done") =>
         LET n == StatsResult(r) IN
         /\ n["used"] + n["unused"] = n["total"]
         /\ n["active"] <= n["unused"]]_vars

(* ---- admin: POST /charity-codes/bulk (IssueBatch) ---- *)
\* Locals of the handler: batch is `codes`, the codes drawn so far; saves is
\* `codePromises`, one entry per save() sent: 0 while the insert is on its
\* way, the _id of the stored document once it is fulfilled, -1 once it is
\* rejected.  The count of the body is kept in the request's code field.
Range(seq) == {seq[i] : i \in 1..Len(seq)}

Pending(saves) == {i \in 1..Len(saves) : saves[i] = 0}

Rejected(saves) == {i \in 1..Len(saves) : saves[i] = -1}

StartIssueBatch(r, uid, count, exp) == Start(r, "batch", uid, count, exp)

\* the response is sent and every save() of the request has settled
BatchDone(rs, r) ==
  [rs EXCEPT ![r].pc = "done", ![r].exp = 0, ![r].user = NullUser]

\* requireAdmin, Joi validation, then one iteration of the do-while loop of
\* position Len(batch) + 1: a candidate that is in `codes` or found in the
\* store is drawn again; a free one is pushed and its save() is sent.  After
\* the last position the handler awaits Promise.all, which rejects at once
\* when a save has been rejected already.
BatchGen(r) ==
  /\ reqs[r].op = "batch" /\ reqs[r].pc \in {"authed", "gen"}
  /\ IF reqs[r].pc = "authed" /\ reqs[r].user.accountType # "admin"
     THEN reqs' = Done(r, "Forbidden")
     ELSE IF reqs[r].pc = "authed" /\ (reqs[r].code < 1 \/ reqs[r].code > MaxCount)
     THEN reqs' = Done(r, "InvalidCount")
     ELSE IF reqs[r].pc = "authed" /\ reqs[r].exp <= now
     THEN reqs' = Done(r, "InvalidExpiry")
     ELSE \E k \in CodeStrings :
            IF k \in Range(reqs[r].batch) \/ FindCodeByCode(k).id # 0
            THEN reqs' = [reqs EXCEPT ![r].pc = "gen", ![r].cand = k]
            ELSE LET sent == [reqs EXCEPT ![r].batch = Append(@, k),
                                          ![r].saves = Append(@, 0),
                                          ![r].cand = 0]
                 IN IF Len(reqs[r].batch) + 1 < reqs[r].code
                    THEN reqs' = [sent EXCEPT ![r].pc = "gen"]
                    ELSE IF Rejected(reqs[r].saves) # {}
                    THEN reqs' = [sent EXCEPT ![r].pc = "drain", ![r].res = "Error"]
                    ELSE reqs' = [sent EXCEPT ![r].pc = "all"]
  /\ UNCHANGED <<now, users, nextUserId, codes, charities, io>>

\* the insert of position i reaches the database.  While the handler awaits
\* Promise.all, the first rejection sends the 500 and the last fulfilment sends
\* the 201; the saves still on their way reach the database all the same.
BatchSave(r, i) ==
  /\ reqs[r].op = "batch" /\ reqs[r].pc \in {"gen", "all", "drain"}
  /\ i \in Pending(reqs[r].saves)
  /\ LET rejected == DuplicateKey(reqs[r].batch[i])
         saves == [reqs[r].saves EXCEPT
                     ![i] = IF rejected THEN -1 ELSE Len(codes) + 1]
         settled == [reqs EXCEPT ![r].saves = saves]
     IN /\ codes' = IF rejected THEN codes
                    ELSE Append(codes, NewCharityCode(reqs[r].batch[i],
                                         reqs[r].exp, reqs[r].user.id))
        /\ reqs' =
             IF reqs[r].pc = "gen" THEN settled
             ELSE IF reqs[r].pc = "drain"
             THEN IF Pending(saves) = {} THEN BatchDone(settled, r) ELSE settled
             ELSE IF rejected
             THEN IF Pending(saves) = {}
                  THEN BatchDone([settled EXCEPT ![r].res = "Error"], r)
                  ELSE [settled EXCEPT ![r].pc = "drain", ![r].res = "Error"]
             ELSE IF Pending(saves) = {}
                  THEN BatchDone([settled EXCEPT ![r].res = "Created"], r)
                  ELSE settled
  /\ UNCHANGED <<now, users, nextUserId, charities, io>>

\* Requests of this specification: the admin issues codes one by one and in
\* batches.
NextIssue ==
  \/ Tick
  \/ \E r \in Slots :
       \/ \E k \in 0..NumCodeStrings, e \in 1..MaxTime :
            StartIssue(r, AdminId, k, e)
       \/ IssueFind(r)
       \/ IssueSave(r)
       \/ \E n \in (0..MaxBatch) \cup {MaxCount + 1}, e \in 1..MaxTime :
            StartIssueBatch(r, AdminId, n, e)
       \/ BatchGen(r)
       \/ \E i \in 1..MaxBatch : BatchSave(r, i)

SpecIssue == Init /\ [][NextIssue]_vars

UniqueCodes == \A c, d \in CodeIds : codes[c].code = codes[d].code => c = d

\* Slot r answers in this step an issue or bulk request one of whose inserts
\* found its code stored already.
LosesRace(r) ==
  /\ reqs[r].res = "none" /\ reqs'[r].res # "none"
  /\ \/ reqs[r].op = "issue" /\ reqs[r].pc = "save" /\ DuplicateKey(reqs[r].code)
     \/ reqs[r].op = "batch" /\ Rejected(reqs'[r].saves) # {}

\* C13: no two stored credentials share a code, and an issue or bulk request
\* whose insert finds its code stored by another issuer answers DuplicateCode.
CE_C13 ==
  [][/\ UniqueCodes'
     /\ \A r \in Slots : LosesRace(r) => reqs'[r].res = "DuplicateCode"]_vars

\* The positions of the bulk request of slot r whose credential is stored.
Stored(r) == {i \in 1..Len(reqs[r].saves) : reqs[r].saves[i] > 0}

\* C14: once a bulk request has failed and all its saves have settled, no
\* credential of the batch is in the store.
CE_C14 ==
  \A r \in Slots :
    (reqs[r].op = "batch" /\ reqs[r].pc = "done" /\ reqs[r].res = "Error")
      => Stored(r) = {}

\* C15: a bulk request that answers 201 for a count n has stored n documents;
\* the returned list names them in position order, document i carrying the
\* i-th code drawn; the n codes differ from each other, and no two documents
\* of the store share a code.
Thm_C15 ==
  /\ UniqueCodes
  /\ \A r \in Slots :
       (reqs[r].op = "batch" /\ reqs[r].res = "Created") =>
         /\ reqs[r].pc = "done"
         /\ reqs[r].code \in 1..MaxCount
         /\ Len(reqs[r].saves) = reqs[r].code
         /\ Len(reqs[r].batch) = reqs[r].code
         /\ \A i \in 1..reqs[r].code :
              /\ reqs[r].saves[i] \in CodeIds
              /\ codes[reqs[r].saves[i]].code = reqs[r].batch[i]
         /\ \A i, j \in 1..reqs[r].code :
              (reqs[r].saves[i] = reqs[r].saves[j] \/ reqs[r].batch[i] = reqs[r].batch[j])
                => i = j

\* A batch of MaxBatch codes is stored, the insert of its last position
\* reaching the database before the insert of its first position.
Witness_C15 ==
  \E r \in Slots :
    /\ reqs[r].op = "batch" /\ reqs[r].res = "Created"
    /\ reqs[r].code = MaxBatch
    /\ reqs[r].saves[MaxBatch] < reqs[r].saves[1]

\* The step of slot r of an admin's issue request that carries a code and a
\* valid expiry date: its existence check or its save.
ExplicitIssueStep(r) ==
  /\ reqs[r].op = "issue" /\ reqs[r].code # 0 /\ ~reqs[r].generated
  /\ reqs[r].user.accountType = "admin"
  /\ \/ reqs[r].pc = "authed" /\ reqs[r].exp > now
     \/ reqs[r].pc = "save"
  /\ reqs'[r] # reqs[r]

\* C16: an issue request with an explicit code answers DuplicateCode and
\* writes nothing whenever a credential with that code is stored, whatever
\* its state; when none is stored its save adds exactly one credential with
\* that code, active and unredeemed, and answers 201.
CE_C16 ==
  [][\A r \in Slots : ExplicitIssueStep(r) =>
       IF CodeIdsWithCode(reqs[r].code) # {}
       THEN /\ reqs'[r].pc = "done" /\ reqs'[r].res = "DuplicateCode"
            /\ codes' = codes
       ELSE \/ reqs[r].pc = "authed" /\ reqs'[r].pc = "save" /\ codes' = codes
            \/ /\ reqs[r].pc = "save"
               /\ reqs'[r].pc = "done" /\ reqs'[r].res = "Created"
               /\ Len(codes') = Len(codes) + 1
               /\ SubSeq(codes', 1, Len(codes)) = codes
               /\ codes'[Len(codes')].code = reqs[r].code
               /\ codes'[Len(codes')].isActive
               /\ ~codes'[Len(codes')].isUsed
               /\ codes'[Len(codes')].usedBy = NoUsedBy]_vars

\* A step of the generation loop of slot r that leaves the loop iteration:
\* a free code is drawn (or the request is refused before the loop).
IssueDraw(r) == IssueFind(r) /\ reqs'[r].pc # "gen"

BatchDraw(r) ==
  BatchGen(r) /\ (reqs'[r].pc # "gen" \/ reqs'[r].batch # reqs[r].batch)

\* The issuing requests with the scheduling of the server: the database
\* answers every query and insert it was sent, and Node runs the continuation
\* of the handler that awaits it, so every handler keeps taking its steps.
\* generateCode draws with Math.random: as long as some code stays free, the
\* loop draws a free one sooner or later.
SpecIssueFair ==
  /\ Init /\ [][NextIssue]_vars
  /\ \A r \in Slots :
       /\ WF_vars(IssueFind(r))
       /\ WF_vars(IssueDraw(r))
       /\ WF_vars(IssueSave(r))
       /\ WF_vars(BatchGen(r))
       /\ WF_vars(BatchDraw(r))
       /\ WF_vars(\E i \in 1..MaxBatch : BatchSave(r, i))

\* C17: every issue request without a code and every bulk request that has
\* been authenticated is answered.
CE_C17 ==
  \A r \in Slots :
    (/\ reqs[r].pc \in {"authed", "gen"}
     /\ \/ reqs[r].op = "issue" /\ reqs[r].code = 0
        \/ reqs[r].op = "batch")
      ~> (reqs[r].res # "none")

\* C19: the save of a grant on a user who holds one already is rejected with
\* GrantConflict and leaves the stored grant (code, authorizedAt) as it was.
CE_C19 ==
  [][\A r \in Slots :
       (/\ reqs[r].op = "redeem" /\ reqs[r].pc = "saveUser"
        /\ reqs'[r] # reqs[r]
        /\ HoldsGrant(reqs[r].uid))
       => /\ reqs'[r].res = "GrantConflict"
          /\ users'[reqs[r].uid].charityAuthorization
               = users[reqs[r].uid].charityAuthorization]_vars

(* ---- admin: PUT /users/:id ---- *)
\* bodies accepted by updateUserSchema
Updates ==
  {[accountType |-> "charity", isActive |-> "unset"],
   [accountType |-> "individual", isActive |-> "unset"],
   [accountType |-> "unset", isActive |-> "false"],
   [accountType |-> "unset", isActive |-> "true"]}

IsActiveOf(value, old) ==
  IF value.isActive = "unset" THEN old ELSE value.isActive = "true"

AccountTypeOf(value, old) ==
  IF value.accountType = "unset" THEN old ELSE value.accountType

StartUpdateUser(r, uid, id) == Start(r, "updateUser", uid, id, 0)

\* requireAdmin, Joi validation of the body, User.findById(req.params.id),
\* the admin-account check; the keys of the body are assigned to the document
UpdateUserFind(r, value) ==
  /\ reqs[r].op = "updateUser" /\ reqs[r].pc = "authed"
  /\ IF reqs[r].user.accountType # "admin"
     THEN reqs' = Done(r, "Forbidden")
     ELSE LET user == FindUserById(reqs[r].code) IN
       IF user.id = 0 THEN reqs' = Done(r, "NotFound")
       ELSE IF user.accountType = "admin"
       THEN reqs' = Done(r, "Forbidden")
       ELSE reqs' = [reqs EXCEPT ![r].target = user, ![r].value = value,
                                 ![r].pc = "save"]
  /\ UNCHANGED <<now, users, nextUserId, codes, charities, io>>

\* Variant: the save writing the whole loaded document back.
UpdateUserSave_WholeDoc(r) ==
  /\ reqs[r].op = "updateUser" /\ reqs[r].pc = "save"
  /\ LET id == reqs[r].target.id IN
     IF id \notin DOMAIN users
     THEN /\ reqs' = Done(r, "Error")
          /\ users' = users
     ELSE /\ users' = [users EXCEPT ![id] =
                 [accountType |-> AccountTypeOf(reqs[r].value, reqs[r].target.accountType),
                  isActive |-> IsActiveOf(reqs[r].value, reqs[r].target.isActive),
                  charityAuthorization |-> reqs[r].target.charityAuthorization,
                  personalInfo |-> reqs[r].target.personalInfo]]
          /\ reqs' = [Done(r, "Updated") EXCEPT
                       ![r].wroteUser = TRUE,
                       ![r].overGrant = HoldsGrant(id)
                          /\ ~reqs[r].target.charityAuthorization.canCreateCharity]
  /\ UNCHANGED <<now, nextUserId, codes, charities, io>>

\* user.save(): $set by _id of the paths whose value the assignment changed
UpdateUserSave(r) ==
  /\ reqs[r].op = "updateUser" /\ reqs[r].pc = "save"
  /\ LET id == reqs[r].target.id
         accountType == AccountTypeOf(reqs[r].value, reqs[r].target.accountType)
         isActive == IsActiveOf(reqs[r].value, reqs[r].target.isActive)
     IN
     IF id \notin DOMAIN users
     THEN /\ reqs' = Done(r, "Error")
          /\ users' = users
     ELSE /\ users' = [users EXCEPT
                 ![id].accountType =
                    IF accountType # reqs[r].target.accountType THEN accountType ELSE @,
                 ![id].isActive =
                    IF isActive # reqs[r].target.isActive THEN isActive ELSE @]
          /\ reqs' = [Done(r, "Updated") EXCEPT
                       ![r].wroteUser = TRUE,
                       ![r].overGrant = HoldsGrant(id)
                          /\ ~reqs[r].target.charityAuthorization.canCreateCharity]
  /\ UNCHANGED <<now, nextUserId, codes, charities, io>>

(* ---- PUT /profile, POST /logout ---- *)
StartUpdateProfile(r, uid) == Start(r, "updateProfile", uid, 0, 0)

\* User.findById(req.user._id); user.profile is assigned
UpdateProfileFind(r) ==
  /\ reqs[r].op = "updateProfile" /\ reqs[r].pc = "authed"
  /\ LET user == FindUserById(reqs[r].user.id) IN
     IF user.id = 0 THEN reqs' = Done(r, "NotFound")
     ELSE reqs' = [reqs EXCEPT ![r].target = user, ![r].pc = "save"]
  /\ UNCHANGED <<now, users, nextUserId, codes, charities, io>>

\* user.save(): $set profile by _id; no field of this model is written
UpdateProfileSave(r) ==
  /\ reqs[r].op = "updateProfile" /\ reqs[r].pc = "save"
  /\ IF reqs[r].target.id \notin DOMAIN users
     THEN reqs' = Done(r, "Error")
     ELSE reqs' = Done(r, "Updated")
  /\ UNCHANGED <<now, users, nextUserId, codes, charities, io>>

StartLogout(r, uid) == Start(r, "logout", uid, 0, 0)

\* without a refreshToken in the body the handler answers at once; with one
\* it filters req.user.refreshTokens and saves that path only (the 500 of the
\* catch is the answer when the filter or the save throws)
Logout(r) ==
  /\ reqs[r].op = "logout" /\ reqs[r].pc = "authed"
  /\ \E res \in {"LoggedOut", "Error"} : reqs' = Done(r, res)
  /\ UNCHANGED <<now, users, nextUserId, codes, charities, io>>

\* The database once every account of Clients is registered and the admin
\* has issued one code, valid until MaxTime.
InitSeeded ==
  /\ now = 0
  /\ users = [u \in {AdminId} \cup Clients |->
               IF u = AdminId THEN NewUser("admin") ELSE NewUser("individual")]
  /\ nextUserId = MaxUsers + 1
  /\ codes = << NewCharityCode(1, MaxTime, AdminId) >>
  /\ reqs = [r \in Slots |-> IdleReq]
  /\ charities = << >>
  /\ io = NoIo

\* Requests of this specification: registered accounts redeem codes, update
\* their profile and log out; the admin updates users and deactivates codes.
NextUsers ==
  \E r \in Slots :
       \/ \E u \in Clients, k \in CodeStrings : StartRedeem(r, u, k)
       \/ RedeemFind(r)
       \/ RedeemCheck(r)
       \/ RedeemSaveCode(r)
       \/ RedeemFindUser(r)
       \/ RedeemSaveUser(r)
       \/ \E u \in Clients : StartUpdateUser(r, AdminId, u)
       \/ \E value \in Updates : UpdateUserFind(r, value)
       \/ UpdateUserSave(r)
       \/ \E u \in Clients : StartUpdateProfile(r, u)
       \/ UpdateProfileFind(r)
       \/ UpdateProfileSave(r)
       \/ \E u \in Clients : StartLogout(r, u)
       \/ Logout(r)
       \/ \E c \in 1..MaxCodes : StartDeactivate(r, AdminId, c)
       \/ DeactivateFind(r)
       \/ DeactivateSave(r)

SpecUsers == InitSeeded /\ [][NextUsers]_vars

\* C18: no step takes the grant from a user who holds it and is still stored.
Thm_C18 ==
  [][\A u \in DOMAIN users :
       (HoldsGrant(u) /\ u \in DOMAIN users')
         => users'[u].charityAuthorization.canCreateCharity]_vars

\* An admin update has saved a user document it had loaded before the user
\* was granted, and the user holds the grant and the updated account type.
Witness_C18 ==
  \E r \in Slots :
    /\ reqs[r].op = "updateUser" /\ reqs[r].res = "Updated"
    /\ reqs[r].overGrant
    /\ HoldsGrant(reqs[r].code)
    /\ users[reqs[r].code].accountType = "charity"

(* ---- POST /charities (create an organization) ---- *)
\* the document POST /charities stores: the owner, the default status, the
\* name of the body (here the one-character name 0) as the pre-save hook
\* leaves it, no programs
NewCharity(owner) ==
  [owner |-> owner, status |-> "pending", name |-> simpleEncrypt(<< 0 >>),
   programs |-> << >>]

\* Charity.findOne({ owner })
OwnsCharity(id) == \E c \in 1..Len(charities) : charities[c].owner = id

\* Variant: the middleware asking admins for a grant as well.
CanCreateCharity_GrantOnly(user) == user.charityAuthorization.canCreateCharity

\* Variant: the middleware letting every authenticated user pass.
CanCreateCharity_NoCheck(user) == TRUE

\* the canCreateCharity middleware, run on req.user
CanCreateCharity(user) ==
  \/ user.accountType = "admin"
  \/ user.charityAuthorization.canCreateCharity

StartCreateCharity(r, uid) ==
  /\ Len(charities) + Cardinality(InFlight("createCharity")) < MaxCharities
  /\ Start(r, "createCharity", uid, 0, 0)

\* canCreateCharity, Joi validation of the body, the lookup of a charity of
\* the caller and the one-charity limit of individual accounts
CreateCharityFind(r, valid) ==
  /\ reqs[r].op = "createCharity" /\ reqs[r].pc = "authed"
  /\ IF ~CanCreateCharity(reqs[r].user)
     THEN reqs' = Done(r, "Forbidden")
     ELSE IF ~valid
     THEN reqs' = Done(r, "Invalid")
     ELSE IF OwnsCharity(reqs[r].user.id) /\ reqs[r].user.accountType = "individual"
     THEN reqs' = Done(r, "AlreadyOwns")
     ELSE reqs' = [reqs EXCEPT ![r].pc = "save"]
  /\ UNCHANGED <<now, users, nextUserId, codes, charities, io>>

\* charity.save(): insert with owner req.user._id
CreateCharitySave(r) ==
  /\ reqs[r].op = "createCharity" /\ reqs[r].pc = "save"
  /\ charities' = Append(charities, NewCharity(reqs[r].user.id))
  /\ reqs' = Done(r, "Created")
  /\ UNCHANGED <<now, users, nextUserId, codes, io>>

\* Requests of this specification: registered accounts redeem the code; they
\* and the admin create charities.
NextOrg ==
  \E r \in Slots :
    \/ \E u \in Clients, k \in CodeStrings : StartRedeem(r, u, k)
    \/ RedeemFind(r)
    \/ RedeemCheck(r)
    \/ RedeemSaveCode(r)
    \/ RedeemFindUser(r)
    \/ RedeemSaveUser(r)
    \/ \E u \in {AdminId} \cup Clients : StartCreateCharity(r, u)
    \/ \E valid \in BOOLEAN : CreateCharityFind(r, valid)
    \/ CreateCharitySave(r)

SpecOrg == InitSeeded /\ [][NextOrg]_vars

\* C20: a step that stores a charity is the save of a request whose
\* authenticated user is an admin or holds canCreateCharity, and the charity
\* is owned by that user; a create request whose authenticated user is
\* neither is answered Forbidden at its next step and stores nothing.
Thm_C20 ==
  [][/\ charities' # charities =>
          \E r \in Slots :
            /\ reqs[r].op = "createCharity" /\ reqs'[r].res = "Created"
            /\ \/ reqs[r].user.accountType = "admin"
               \/ reqs[r].user.charityAuthorization.canCreateCharity
            /\ charities' = Append(charities, NewCharity(reqs[r].user.id))
     /\ \A r \in Slots :
          (/\ reqs[r].op = "createCharity" /\ reqs[r].pc = "authed"
           /\ reqs'[r] # reqs[r]
           /\ reqs[r].user.accountType # "admin"
           /\ ~reqs[r].user.charityAuthorization.canCreateCharity)
          => (/\ reqs'[r].pc = "done" /\ reqs'[r].res = "Forbidden"
              /\ charities' = charities)]_vars

\* A granted account owns a charity, and the create request of an account
\* without a grant has been refused.
Witness_C20 ==
  /\ \E c \in 1..Len(charities) :
       /\ charities[c].owner \in Clients
       /\ HoldsGrant(charities[c].owner)
  /\ \E r \in Slots :
       /\ reqs[r].op = "createCharity" /\ reqs[r].res = "Forbidden"
       /\ ~HoldsGrant(reqs[r].uid)

\* C21: the canCreateCharity middleware lets a create request through exactly
\* when its authenticated user is an admin or holds canCreateCharity; admins
\* need no grant.
Thm_C21 ==
  [][\A r \in Slots :
       (/\ reqs[r].op = "createCharity" /\ reqs[r].pc = "authed"
        /\ reqs'[r] # reqs[r])
       => ((reqs'[r].res # "Forbidden")
            <=> (\/ reqs[r].user.accountType = "admin"
                 \/ reqs[r].user.charityAuthorization.canCreateCharity))]_vars

\* The admin, who holds no grant, has created a charity, and an account
\* without a grant has been refused.
Witness_C21 ==
  /\ ~HoldsGrant(AdminId)
  /\ \E c \in 1..Len(charities) : charities[c].owner = AdminId
  /\ \E r \in Slots :
       /\ reqs[r].op = "createCharity" /\ reqs[r].res = "Forbidden"
       /\ reqs[r].uid \in Clients

(* ---- the encryption utility called directly ---- *)
CallSimpleEncrypt(text) ==
  /\ io' = [NoIo EXCEPT !.op = "simpleEncrypt", !.text = text,
                        !.blob = simpleEncrypt(text)]
  /\ UNCHANGED <<now, users, nextUserId, codes, reqs, charities>>

\* decoding what the last simpleEncrypt returned
CallSimpleDecrypt ==
  /\ io.op = "simpleEncrypt"
  /\ io' = [io EXCEPT !.op = "simpleDecrypt", !.out = simpleDecrypt(io.blob)]
  /\ UNCHANGED <<now, users, nextUserId, codes, reqs, charities>>

CallEncrypt(text, iv) ==
  /\ io' = [NoIo EXCEPT !.op = "encrypt", !.text = text,
                        !.data = encrypt(text, iv)]
  /\ UNCHANGED <<now, users, nextUserId, codes, reqs, charities>>

CallDecrypt ==
  /\ io.op = "encrypt"
  /\ io' = [io EXCEPT !.op = "decrypt", !.out = decrypt(io.data)]
  /\ UNCHANGED <<now, users, nextUserId, codes, reqs, charities>>

NextCrypto ==
  \/ \E text \in Texts \cup {Null} : CallSimpleEncrypt(text)
  \/ CallSimpleDecrypt
  \/ \E text \in Texts \cup {Null}, iv \in Chars : CallEncrypt(text, iv)
  \/ CallDecrypt

SpecCrypto == Init /\ [][NextCrypto]_vars

InfoBodies ==
  {[firstName |-> << 0 >>, city |-> Null, country |-> Null],
   [firstName |-> Null, city |-> << 1 >>, country |-> << 2 % NumChars >>],
   [firstName |-> Null, city |-> Null, country |-> << 2 % NumChars >>]}

\* { ...user.personalInfo, ...value }: a key of the body replaces the stored
\* one, and an address in the body replaces the stored address as a whole
MergeInfo(old, value) ==
  [firstName |-> IF value.firstName # Null THEN value.firstName ELSE old.firstName,
   city      |-> IF value.city # Null \/ value.country # Null
                 THEN value.city ELSE old.city,
   country   |-> IF value.city # Null \/ value.country # Null
                 THEN value.country ELSE old.country]

\* the pre-save hook of the user schema: a truthy modified field is encrypted;
\* country is not among the fields of the hook.  `all` says whether the
\* assignment of the parent path marks the subpaths it did not change as
\* modified, which depends on the mongoose release.
EncryptInfo(old, new, all) ==
  [firstName |-> IF ~Falsy(new.firstName) /\ (all \/ new.firstName # old.firstName)
                 THEN simpleEncrypt(new.firstName) ELSE new.firstName,
   city      |-> IF ~Falsy(new.city) /\ (all \/ new.city # old.city)
                 THEN simpleEncrypt(new.city) ELSE new.city,
   country   |-> new.country]

\* no stored string has grown beyond what the model keeps
Short(info) ==
  /\ Len(info.firstName) < MaxLen /\ Len(info.city) < MaxLen
  /\ Len(info.country) < MaxLen

StartUpdatePersonalInfo(r, uid) ==
  /\ uid \in DOMAIN users => Short(users[uid].personalInfo)
  /\ Start(r, "updatePersonalInfo", uid, 0, 0)

\* Joi validation of the body, User.findById(req.user._id), the assignment of
\* user.personalInfo
UpdatePersonalInfoFind(r, value) ==
  /\ reqs[r].op = "updatePersonalInfo" /\ reqs[r].pc = "authed"
  /\ LET user == FindUserById(reqs[r].user.id) IN
     IF user.id = 0 THEN reqs' = Done(r, "NotFound")
     ELSE reqs' = [reqs EXCEPT ![r].target = user, ![r].info = value,
                               ![r].pc = "save"]
  /\ UNCHANGED <<now, users, nextUserId, codes, charities, io>>

\* user.save(): the pre-save hook, then $set personalInfo by _id
UpdatePersonalInfoSave(r, all) ==
  /\ reqs[r].op = "updatePersonalInfo" /\ reqs[r].pc = "save"
  /\ LET id == reqs[r].target.id
         old == reqs[r].target.personalInfo
     IN IF id \notin DOMAIN users
        THEN /\ reqs' = Done(r, "Error")
             /\ users' = users
        ELSE /\ users' = [users EXCEPT ![id].personalInfo =
                           EncryptInfo(old, MergeInfo(old, reqs[r].info), all)]
             /\ reqs' = [reqs EXCEPT ![r].pc = "reload", ![r].wroteUser = TRUE]
  /\ UNCHANGED <<now, nextUserId, codes, charities, io>>

\* User.findById(user._id) and getDecryptedPersonalInfo() for the response
UpdatePersonalInfoReload(r) ==
  /\ reqs[r].op = "updatePersonalInfo" /\ reqs[r].pc = "reload"
  /\ IF reqs[r].target.id \in DOMAIN users
     THEN reqs' = Done(r, "Updated")
     ELSE reqs' = Done(r, "Error")
  /\ UNCHANGED <<now, users, nextUserId, codes, charities, io>>

\* Requests of this specification: one registered account updates its
\* personal information.
NextInfo ==
  \E r \in Slots :
    \/ StartUpdatePersonalInfo(r, AdminId + 1)
    \/ \E value \in InfoBodies : UpdatePersonalInfoFind(r, value)
    \/ \E all \in BOOLEAN : UpdatePersonalInfoSave(r, all)
    \/ UpdatePersonalInfoReload(r)

SpecInfo == InitSeeded /\ [][NextInfo]_vars

\* C25: whatever non-empty string a personal-info update writes to a field
\* of the PII bundle, the save does not store that string as it was given.
CE_C25 ==
  [][\A r \in Slots :
       (/\ reqs[r].op = "updatePersonalInfo" /\ reqs[r].pc = "save"
        /\ reqs'[r].pc = "reload")
       => LET stored == users'[reqs[r].target.id].personalInfo IN
          /\ ~Falsy(reqs[r].info.firstName) => stored.firstName # reqs[r].info.firstName
          /\ ~Falsy(reqs[r].info.city) => stored.city # reqs[r].info.city
          /\ ~Falsy(reqs[r].info.country) => stored.country # reqs[r].info.country]_vars

(* ---- PUT /charities/:id, POST /charities/:id/programs, DELETE /charities/:id ---- *)
\* what a deleted document leaves behind in the sequence (ids are never reused;
\* no lookup finds it)
Tombstone == [owner |-> 0, status |-> "deleted", name |-> Null, programs |-> << >>]

Exists(id) == id \in 1..Len(charities) /\ charities[id] # Tombstone

CharityDoc(id) ==
  [id |-> id, owner |-> charities[id].owner, status |-> charities[id].status,
   name |-> charities[id].name, programs |-> charities[id].programs]

\* Charity.findById
FindCharityById(id) == IF Exists(id) THEN CharityDoc(id) ELSE NullCharity

\* the part of the pre-save hook run when `programs` is modified: every
\* program of the document with a name has the name encrypted
EncryptPrograms(programs) ==
  [i \in 1..Len(programs) |->
     IF Falsy(programs[i]) THEN programs[i] ELSE simpleEncrypt(programs[i])]

\* Variant: the middleware letting every authenticated user pass.
MayModify_AnyUser(charity, user) == TRUE

\* the ownership test of authorizeCharityOwner
MayModify(charity, user) ==
  \/ charity.owner = user.id
  \/ user.accountType = "admin"

\* names of the programs of the request bodies
Programs == {<< 0 >>, << 1 >>}

OwnerOps == {"updateCharity", "addProgram", "deleteCharity"}

\* bodies of PUT /charities/:id: a key the body does not carry is "unset" /
\* Null / 0
CharityBodies ==
  {[status |-> "verified", name |-> Null, owner |-> 0],
   [status |-> "unset", name |-> << 1 >>, owner |-> 0],
   [status |-> "unset", name |-> Null, owner |-> AdminId]}

StartUpdateCharity(r, uid, id) == Start(r, "updateCharity", uid, id, 0)

StartAddProgram(r, uid, id) ==
  /\ Exists(id) =>
       Len(charities[id].programs) + Cardinality(InFlight("addProgram")) < MaxPrograms
  /\ Start(r, "addProgram", uid, id, 0)

StartDeleteCharity(r, uid, id) == Start(r, "deleteCharity", uid, id, 0)

\* authorizeCharityOwner: Charity.findById(req.params.id), 404, the ownership
\* test, req.charity = charity
AuthorizeCharityOwner(r) ==
  /\ reqs[r].op \in OwnerOps /\ reqs[r].pc = "authed"
  /\ LET charity == FindCharityById(reqs[r].code) IN
     IF charity.id = 0 THEN reqs' = Done(r, "NotFound")
     ELSE IF ~MayModify(charity, reqs[r].user) THEN reqs' = Done(r, "Forbidden")
     ELSE reqs' = [reqs EXCEPT ![r].charity = charity, ![r].pc = "owner"]
  /\ UNCHANGED <<now, users, nextUserId, codes, charities, io>>

\* the handler of PUT /charities/:id: every key of the body except owner is
\* assigned to req.charity, then save(): the pre-save hook and $set of the
\* modified paths by _id; save() of a document that is gone rejects (500)
UpdateCharitySave(r, body) ==
  /\ reqs[r].op = "updateCharity" /\ reqs[r].pc = "owner"
  /\ LET id == reqs[r].charity.id
         modified == body.status # "unset" \/ body.name # Null
     IN IF modified /\ ~Exists(id)
        THEN /\ reqs' = Done(r, "Error")
             /\ charities' = charities
        ELSE /\ charities' =
                  IF modified
                  THEN [charities EXCEPT
                          ![id].status = IF body.status # "unset" THEN body.status ELSE @,
                          ![id].name = IF body.name # Null
                                       THEN simpleEncrypt(body.name) ELSE @]
                  ELSE charities
             /\ reqs' = Done(r, "Updated")
  /\ UNCHANGED <<now, users, nextUserId, codes, io>>

\* the handler of POST /charities/:id/programs: req.charity.programs.push,
\* then save(): the pre-save hook on the modified array, the array written
\* by _id
AddProgramSave(r, program) ==
  /\ reqs[r].op = "addProgram" /\ reqs[r].pc = "owner"
  /\ LET id == reqs[r].charity.id IN
     IF ~Exists(id)
     THEN /\ reqs' = Done(r, "Error")
          /\ charities' = charities
     ELSE /\ charities' = [charities EXCEPT ![id].programs =
                             EncryptPrograms(Append(reqs[r].charity.programs, program))]
          /\ reqs' = Done(r, "Added")
  /\ UNCHANGED <<now, users, nextUserId, codes, io>>

\* the handler of DELETE /charities/:id: Charity.findByIdAndDelete
DeleteCharity(r) ==
  /\ reqs[r].op = "deleteCharity" /\ reqs[r].pc = "owner"
  /\ LET id == reqs[r].code IN
     charities' = IF Exists(id) THEN [charities EXCEPT ![id] = Tombstone]
                  ELSE charities
  /\ reqs' = Done(r, "Deleted")
  /\ UNCHANGED <<now, users, nextUserId, codes, io>>

(* ---- admin: PUT /charities/:id/status ---- *)
StatusInputs == {"verified", "suspended", "bogus"}

StatusValues == {"pending", "verified", "suspended", "inactive"}

StartSetStatus(r, uid, id) == Start(r, "setStatus", uid, id, 0)

\* requireAdmin, the check of the status value, Charity.findById, the
\* assignment of charity.status
SetStatusFind(r, status) ==
  /\ reqs[r].op = "setStatus" /\ reqs[r].pc = "authed"
  /\ IF reqs[r].user.accountType # "admin" THEN reqs' = Done(r, "Forbidden")
     ELSE IF status \notin StatusValues THEN reqs' = Done(r, "Invalid")
     ELSE LET charity == FindCharityById(reqs[r].code) IN
          IF charity.id = 0 THEN reqs' = Done(r, "NotFound")
          ELSE reqs' = [reqs EXCEPT ![r].charity = [charity EXCEPT !.status = status],
                                    ![r].pc = "save"]
  /\ UNCHANGED <<now, users, nextUserId, codes, charities, io>>

\* charity.save(): $set status by _id
SetStatusSave(r) ==
  /\ reqs[r].op = "setStatus" /\ reqs[r].pc = "save"
  /\ LET id == reqs[r].charity.id IN
     IF ~Exists(id)
     THEN /\ reqs' = Done(r, "Error")
          /\ charities' = charities
     ELSE /\ charities' = [charities EXCEPT ![id].status = reqs[r].charity.status]
          /\ reqs' = Done(r, "Updated")
  /\ UNCHANGED <<now, users, nextUserId, codes, io>>

\* The state after the first client has redeemed the seeded code and created
\* its charity.
InitOwned ==
  /\ now = 0
  /\ users = [u \in {AdminId} \cup Clients |->
               IF u = AdminId THEN NewUser("admin")
               ELSE IF u = AdminId + 1
               THEN [NewUser("individual") EXCEPT !.charityAuthorization =
                       [code |-> 1, authorizedAt |-> 0, canCreateCharity |-> TRUE]]
               ELSE NewUser("individual")]
  /\ nextUserId = MaxUsers + 1
  /\ codes = << [NewCharityCode(1, MaxTime, AdminId) EXCEPT
                   !.isUsed = TRUE,
                   !.usedBy = [user |-> AdminId + 1, usedAt |-> 0]] >>
  /\ reqs = [r \in Slots |-> IdleReq]
  /\ charities = << NewCharity(AdminId + 1) >>
  /\ io = NoIo

\* Requests of this specification: the owner of the charity, another account
\* and the admin update it, add programs to it, delete it and set its status.
NextOwner ==
  \E r \in Slots :
    \/ \E u \in {AdminId} \cup Clients, id \in 1..MaxCharities :
         \/ StartUpdateCharity(r, u, id)
         \/ StartAddProgram(r, u, id)
         \/ StartDeleteCharity(r, u, id)
         \/ StartSetStatus(r, u, id)
    \/ AuthorizeCharityOwner(r)
    \/ \E body \in CharityBodies : UpdateCharitySave(r, body)
    \/ \E program \in Programs : AddProgramSave(r, program)
    \/ DeleteCharity(r)
    \/ \E status \in StatusInputs : SetStatusFind(r, status)
    \/ SetStatusSave(r)

SpecOwner == InitOwned /\ [][NextOwner]_vars

\* C22: a step of an update, add-program or delete request that changes the
\* charities changes only the charity the request names, and the request's
\* authenticated user is the owner of the charity the guard resolved or an
\* admin; the guard answers NotFound for an unknown id and Forbidden for any
\* other user, ending the request without a change, and otherwise hands the
\* stored charity to the handler.
Thm_C22 ==
  [][\A r \in Slots :
       /\ (/\ reqs[r].op \in OwnerOps /\ reqs'[r] # reqs[r]
           /\ reqs[r].pc # "done" /\ charities' # charities)
          => /\ reqs[r].pc = "owner"
             /\ reqs[r].charity.id = reqs[r].code
             /\ \/ reqs[r].charity.owner = reqs[r].user.id
                \/ reqs[r].user.accountType = "admin"
             /\ Len(charities') = Len(charities)
             /\ \A c \in 1..Len(charities) :
                  c # reqs[r].code => charities'[c] = charities[c]
       /\ (/\ reqs[r].op \in OwnerOps /\ reqs[r].pc = "authed"
           /\ reqs'[r] # reqs[r])
          => /\ charities' = charities
             /\ IF ~(reqs[r].code \in 1..Len(charities)
                     /\ charities[reqs[r].code].owner # 0)
                THEN reqs'[r].pc = "done" /\ reqs'[r].res = "NotFound"
                ELSE IF /\ charities[reqs[r].code].owner # reqs[r].user.id
                        /\ reqs[r].user.accountType # "admin"
                THEN reqs'[r].pc = "done" /\ reqs'[r].res = "Forbidden"
                ELSE /\ reqs'[r].pc = "owner"
                     /\ reqs'[r].charity.id = reqs[r].code
                     /\ reqs'[r].charity.owner = charities[reqs[r].code].owner
                     /\ reqs'[r].charity.programs = charities[reqs[r].code].programs]_vars

\* The owner has added a program to its charity, and the request of another
\* account that is no admin for the same charity has been refused.
Witness_C22 ==
  /\ Len(charities) >= 1 /\ charities[1].owner = AdminId + 1
  /\ Len(charities[1].programs) = 1
  /\ \E r1, r2 \in Slots :
       /\ reqs[r1].op = "addProgram" /\ reqs[r1].res = "Added"
       /\ reqs[r1].uid = AdminId + 1 /\ reqs[r1].code = 1
       /\ reqs[r2].op \in OwnerOps /\ reqs[r2].res = "Forbidden"
       /\ reqs[r2].uid \in Clients \ {AdminId + 1} /\ reqs[r2].code = 1

\* C29: a step never changes the owner of a charity, and a step that changes
\* the status of a charity is taken by a request whose authenticated user is
\* an admin.
CE_C29 ==
  [][\A c \in 1..Len(charities) :
       (c <= Len(charities') /\ charities'[c] # Tombstone)
       => /\ charities'[c].owner = charities[c].owner
          /\ charities'[c].status # charities[c].status
             => \E r \in Slots : /\ reqs'[r] # reqs[r]
                                 /\ reqs[r].user.accountType = "admin"]_vars

\* C24: one decode of every stored charity name and of every stored program
\* name gives a plaintext name that a request body has carried.
CE_C24 ==
  \A c \in 1..Len(charities) :
    charities[c] # Tombstone
    => /\ simpleDecrypt(charities[c].name) \in {<< 0 >>, << 1 >>}
       /\ \A i \in 1..Len(charities[c].programs) :
            simpleDecrypt(charities[c].programs[i]) \in Programs

(* ---- guard chains ---- *)
\* Requests of this specification: every account, admin or not, asks to
\* create a charity and to issue a code; the admin updates accounts, accounts
\* delete themselves.
NextGuard ==
  \E r \in Slots :
    \/ \E u \in {AdminId} \cup Clients : StartCreateCharity(r, u)
    \/ \E valid \in BOOLEAN : CreateCharityFind(r, valid)
    \/ CreateCharitySave(r)
    \/ \E u \in {AdminId} \cup Clients, k \in 0..NumCodeStrings :
         StartIssue(r, u, k, MaxTime)
    \/ IssueFind(r)
    \/ IssueSave(r)
    \/ \E u \in Clients : StartUpdateUser(r, AdminId, u)
    \/ \E value \in Updates : UpdateUserFind(r, value)
    \/ UpdateUserSave(r)
    \/ \E u \in Clients : StartDeleteAccount(r, u)
    \/ DeleteAccount(r)

SpecGuard == InitSeeded /\ [][NextGuard]_vars

\* C23: a slot that has answered changes only by taking a new request, and
\* that step writes nothing; a request whose token names no stored active
\* user is answered Unauthenticated by the auth stage and no later step
\* answers Unauthenticated; a create request that passed auth and whose user
\* is no admin and holds no grant is answered Forbidden at its next step,
\* whatever its body, and an issue request whose user is no admin is answered
\* Forbidden at its next step, both without a write.
Thm_C23 ==
  [][\A r \in Slots :
       /\ (reqs[r].pc \in {"idle", "done"} /\ reqs'[r] # reqs[r])
          => /\ UNCHANGED <<users, codes, charities>>
             /\ IF reqs'[r].uid \in DOMAIN users /\ users[reqs'[r].uid].isActive
                THEN reqs'[r].pc = "authed" /\ reqs'[r].res = "none"
                ELSE reqs'[r].pc = "done" /\ reqs'[r].res = "Unauthenticated"
       /\ (reqs[r].pc \notin {"idle", "done"} /\ reqs'[r] # reqs[r])
          => reqs'[r].res \notin {"Unauthenticated"}
       /\ (/\ reqs[r].pc = "authed" /\ reqs'[r] # reqs[r]
           /\ reqs[r].user.accountType # "admin"
           /\ \/ reqs[r].op = "issue"
              \/ /\ reqs[r].op = "createCharity"
                 /\ ~reqs[r].user.charityAuthorization.canCreateCharity)
          => /\ reqs'[r].pc = "done" /\ reqs'[r].res = "Forbidden"
             /\ UNCHANGED <<users, codes, charities>>]_vars

\* A create request with the token of a deleted account has been answered
\* Unauthenticated, and the issue request of an account that is no admin has
\* been answered Forbidden.
Witness_C23 ==
  \E r1, r2 \in Slots :
    /\ reqs[r1].op = "createCharity" /\ reqs[r1].res = "Unauthenticated"
    /\ reqs[r1].uid \notin DOMAIN users
    /\ reqs[r2].op = "issue" /\ reqs[r2].res = "Forbidden"
    /\ reqs[r2].uid \in Clients

\* the charities user id owns
OwnedBy(id) == {c \in 1..Len(charities) : charities[c].owner = id}

\* C28: a stored user whose accountType is individual owns at most one
\* charity.
CE_C28 ==
  \A u \in DOMAIN users :
    users[u].accountType = "individual" => Cardinality(OwnedBy(u)) <= 1

(* ---- admin: DELETE /users/:id ---- *)
StartDeleteUser(r, uid, id) == Start(r, "deleteUser", uid, id, 0)

\* requireAdmin, User.findById(req.params.id), 404, 403 for an admin account
DeleteUserFind(r) ==
  /\ reqs[r].op = "deleteUser" /\ reqs[r].pc = "authed"
  /\ IF reqs[r].user.accountType # "admin"
     THEN reqs' = Done(r, "Forbidden")
     ELSE LET user == FindUserById(reqs[r].code) IN
       IF user.id = 0 THEN reqs' = Done(r, "NotFound")
       ELSE IF user.accountType = "admin"
       THEN reqs' = Done(r, "Forbidden")
       ELSE reqs' = [reqs EXCEPT ![r].target = user, ![r].pc = "cascade"]
  /\ UNCHANGED <<now, users, nextUserId, codes, charities, io>>

\* Charity.deleteMany({ owner: user._id })
DeleteUserCharities(r) ==
  /\ reqs[r].op = "deleteUser" /\ reqs[r].pc = "cascade"
  /\ charities' = [c \in 1..Len(charities) |->
                     IF charities[c].owner = reqs[r].target.id
                     THEN Tombstone ELSE charities[c]]
  /\ reqs' = [reqs EXCEPT ![r].pc = "delete"]
  /\ UNCHANGED <<now, users, nextUserId, codes, io>>

\* User.findByIdAndDelete(req.params.id)
DeleteUserDelete(r) ==
  /\ reqs[r].op = "deleteUser" /\ reqs[r].pc = "delete"
  /\ users' = [u \in DOMAIN users \ {reqs[r].code} |-> users[u]]
  /\ reqs' = Done(r, "Deleted")
  /\ UNCHANGED <<now, nextUserId, codes, charities, io>>

\* Requests of this specification: the admin and the account holding the
\* grant create charities, the admin deletes accounts, accounts delete
\* themselves.
NextDelete ==
  \E r \in Slots :
    \/ \E u \in {AdminId, AdminId + 1} : StartCreateCharity(r, u)
    \/ \E valid \in BOOLEAN : CreateCharityFind(r, valid)
    \/ CreateCharitySave(r)
    \/ \E u \in {AdminId} \cup Clients : StartDeleteUser(r, AdminId, u)
    \/ DeleteUserFind(r)
    \/ DeleteUserCharities(r)
    \/ DeleteUserDelete(r)
    \/ \E u \in Clients : StartDeleteAccount(r, u)
    \/ DeleteAccount(r)

SpecDelete == InitOwned /\ [][NextDelete]_vars

\* C27: the owner of every stored charity is a stored user.
CE_C27 ==
  \A c \in 1..Len(charities) :
    charities[c] # Tombstone => charities[c].owner \in DOMAIN users

(* ---- the admin accounts ---- *)
\* accountType of registerSchema: valid('individual', 'charity')
registerSchema(accountType) == accountType \in {"individual", "charity"}

\* accountType of updateUserSchema: valid('individual', 'charity'), optional
updateUserSchema(value) == value.accountType \in {"individual", "charity", "unset"}

\* bodies sent to PUT /users/:id that carry an accountType, the one asking
\* for an admin account included
UpdateBodies ==
  {value \in Updates : value.accountType # "unset"}
    \cup {[accountType |-> "admin", isActive |-> "unset"]}

\* POST /register: Joi validation of the body, then the new user
RegisterRequest(accountType) == registerSchema(accountType) /\ Register(accountType)

\* PUT /users/:id with a body that may fail the validation
UpdateUserRequest(r, value) == updateUserSchema(value) /\ UpdateUserFind(r, value)

\* The state after the first client has registered: the admin, one
\* individual account, one issued code.
InitAdmin ==
  /\ now = 0
  /\ users = [u \in {AdminId, AdminId + 1} |->
               IF u = AdminId THEN NewUser("admin") ELSE NewUser("individual")]
  /\ nextUserId = AdminId + 2
  /\ codes = << NewCharityCode(1, MaxTime, AdminId) >>
  /\ reqs = [r \in Slots |-> IdleReq]
  /\ charities = << >>
  /\ io = NoIo

\* Requests of this specification: accounts of either type register, accounts
\* redeem the code, update their profile and delete themselves; the admin
\* updates and deletes accounts, admin accounts included.  A body the schema
\* rejects is answered 400 and changes nothing.
NextAdmin ==
  \/ \E a \in {"individual", "charity", "admin"} : RegisterRequest(a)
  \/ \E r \in Slots :
       \/ \E u \in 1..MaxUsers : StartRedeem(r, u, 1)
       \/ RedeemFind(r)
       \/ RedeemCheck(r)
       \/ RedeemSaveCode(r)
       \/ RedeemFindUser(r)
       \/ RedeemSaveUser(r)
       \/ \E u \in 1..MaxUsers : StartUpdateUser(r, AdminId, u)
       \/ \E value \in UpdateBodies : UpdateUserRequest(r, value)
       \/ UpdateUserSave(r)
       \/ \E u \in 1..MaxUsers : StartDeleteUser(r, AdminId, u)
       \/ DeleteUserFind(r)
       \/ DeleteUserCharities(r)
       \/ DeleteUserDelete(r)
       \/ \E u \in 1..MaxUsers : StartUpdateProfile(r, u)
       \/ UpdateProfileFind(r)
       \/ UpdateProfileSave(r)
       \/ \E u \in 1..MaxUsers : StartDeleteAccount(r, u)
       \/ DeleteAccount(r)

SpecAdmin == InitAdmin /\ [][NextAdmin]_vars

\* the stored admin accounts
Admins == {u \in DOMAIN users : users[u].accountType = "admin"}

\* C30: no step changes the set of stored admin accounts.
CE_C30 == [][Admins' = Admins]_vars

====
